---------------------------- MODULE Spec2Model ----------------------------
(***************************************************************************)
(* A model of src/app.py, the cave shooter: map generation by a cellular   *)
(* automaton, the safe-zone carve, enemy placement, and the per-tick       *)
(* simulation Game.update (player, bullets, collisions, enemies).          *)
(*                                                                         *)
(* Coordinates are Python floats in the source.  Here they are integers    *)
(* counted in 1/PX of a pixel, so that the speeds 1.2, 0.5 and 0.3 pixels  *)
(* per tick are whole numbers; a normalised direction is truncated to that *)
(* resolution.  Comparisons of a distance with a radius are made on the    *)
(* squares, which is exact.                                                *)
(*                                                                         *)
(* The map is MAP_WIDTH x MAP_HEIGHT tiles; the source uses 256 x 256, a   *)
(* safe-zone radius of 10 and 10 enemies, which are scaled down here.      *)
(***************************************************************************)
EXTENDS Integers, Sequences, FiniteSets

\* ---------------------------------------------------------------- bounds
\* GameConfig.MAP_WIDTH (256 in the source), in tiles
MAP_WIDTH == 6
\* GameConfig.MAP_HEIGHT (256 in the source), in tiles
MAP_HEIGHT == 6
\* GameConfig.SAFE_ZONE_RADIUS (10 in the source), in tiles
SAFE_ZONE_RADIUS == 1
\* GameConfig.ENEMY_COUNT (10 in the source)
ENEMY_COUNT == 2
\* largest smoothing iteration count tried by the generation specification
MaxK == 2

\* ------------------------------------------------------------- constants
\* model units per pixel: the resolution of the float coordinates
PX == 10
TILE_SIZE == 8
RELOAD_TIME == 10
SHIELD_DURATION == 60
SHIELD_COOLDOWN == 60
SMOOTHING_ITERATIONS == 2
SMOOTHING_THRESHOLD == 4
FLOOR_TILE == 0
WALL_TILE == 1
BULLET_COLLISION_RADIUS == 4
BULLET_SPEED == 3
CHASER == 0
SHOOTER == 1
BOMBER == 2
\* Enemy.reload_timer as set by Enemy.__init__ and by a Shooter's shot
ENEMY_RELOAD == 60
\* the speed of a Shooter's bullet, in pixels per tick
ENEMY_BULLET_SPEED == 2
\* the distance under which a Bomber detonates, in pixels
BOMBER_RADIUS == 8
PLAYER_HP == 3
ENEMY_HP == 2

\* one tile, in model units
TILE == TILE_SIZE * PX
\* GameConfig.PLAYER_SPEED = 1.2 pixels
PLAYER_SPEED == (12 * PX) \div 10
\* Enemy.speed: 0.5 pixels for a Chaser, 0.3 for the others
EnemySpeed(etype) == IF etype = CHASER THEN (5 * PX) \div 10 ELSE (3 * PX) \div 10

Rows == 0 .. MAP_HEIGHT - 1
Cols == 0 .. MAP_WIDTH - 1
Tiles == {FLOOR_TILE, WALL_TILE}
ENEMY_TYPES == {CHASER, SHOOTER, BOMBER}

\* ------------------------------------------------------- map generation
\* The outcomes of the random seeding that are explored: the cell (x, y) is
\* a wall when exactly one of "row y is marked" and "column x is marked"
\* holds.  The family contains the all-floor and the all-wall grid, stripes
\* and checkerboards.
SeedGrid(A, B) ==
    [y \in Rows |-> [x \in Cols |->
        IF (y \in A) # (x \in B) THEN WALL_TILE ELSE FLOOR_TILE]]

SeedGrids == {SeedGrid(A, B) : A \in SUBSET Rows, B \in SUBSET Cols}

IsBorder(x, y) == x = 0 \/ x = MAP_WIDTH - 1 \/ y = 0 \/ y = MAP_HEIGHT - 1

\* generate_map, lines 202-207: the four border lines are made walls
ForceBorder(g) ==
    [y \in Rows |-> [x \in Cols |->
        IF IsBorder(x, y) THEN WALL_TILE ELSE g[y][x]]]

\* generate_map, lines 212-218: the walls among the 8 neighbours of (x, y)
wall_count(g, x, y) ==
    Cardinality({d \in (-1 .. 1) \X (-1 .. 1) :
                    /\ ~(d[1] = 0 /\ d[2] = 0)
                    /\ g[y + d[2]][x + d[1]] = WALL_TILE})

\* a variant of the smoothing pass that writes the interior cells into the
\* grid it reads, row by row, from the cell of rank n on
RECURSIVE SmoothFrom(_, _)
SmoothFrom(g, n) ==
    IF n >= MAP_WIDTH * MAP_HEIGHT
    THEN g
    ELSE LET x == n % MAP_WIDTH
             y == n \div MAP_WIDTH
         IN  IF IsBorder(x, y)
             THEN SmoothFrom(g, n + 1)
             ELSE SmoothFrom([g EXCEPT ![y][x] =
                                IF wall_count(g, x, y) >= SMOOTHING_THRESHOLD
                                THEN WALL_TILE
                                ELSE FLOOR_TILE], n + 1)

SmoothPassInPlace(g) ==
    [y \in Rows |-> [x \in Cols |->
        IF IsBorder(x, y) THEN FLOOR_TILE ELSE SmoothFrom(g, 0)[y][x]]]

\* generate_map, lines 209-223: one smoothing pass.  new_map starts all
\* floor and only the interior cells are written.
SmoothPass(g) ==
    [y \in Rows |-> [x \in Cols |->
        IF IsBorder(x, y)
        THEN FLOOR_TILE
        ELSE IF wall_count(g, x, y) >= SMOOTHING_THRESHOLD
             THEN WALL_TILE
             ELSE FLOOR_TILE]]

RECURSIVE Smooth(_, _)
Smooth(g, n) == IF n = 0 THEN g ELSE Smooth(SmoothPass(g), n - 1)

\* generate_map as a whole, from the seeding and the iteration count
generate_map(seed, n) == Smooth(ForceBorder(seed), n)

Max(a, b) == IF a >= b THEN a ELSE b
Min(a, b) == IF a <= b THEN a ELSE b

\* a variant of clear_safe_zone whose ranges stop one tile short
clear_safe_zone_short(g, cx, cy, r) ==
    LET tcx == cx \div TILE
        tcy == cy \div TILE
        ys == Max(0, tcy - r) .. Min(MAP_HEIGHT, tcy + r) - 1
        xs == Max(0, tcx - r) .. Min(MAP_WIDTH, tcx + r) - 1
    IN  [y \in Rows |-> [x \in Cols |->
            IF y \in ys /\ x \in xs THEN FLOOR_TILE ELSE g[y][x]]]

\* a variant of clear_safe_zone whose ranges go one tile too far
clear_safe_zone_wide(g, cx, cy, r) ==
    LET tcx == cx \div TILE
        tcy == cy \div TILE
        ys == Max(0, tcy - r - 1) .. Min(MAP_HEIGHT, tcy + r + 2) - 1
        xs == Max(0, tcx - r - 1) .. Min(MAP_WIDTH, tcx + r + 2) - 1
    IN  [y \in Rows |-> [x \in Cols |->
            IF y \in ys /\ x \in xs THEN FLOOR_TILE ELSE g[y][x]]]

\* clear_safe_zone: (cx, cy) is the centre in model units, r is in tiles
clear_safe_zone(g, cx, cy, r) ==
    LET tcx == cx \div TILE
        tcy == cy \div TILE
        ys == Max(0, tcy - r) .. Min(MAP_HEIGHT, tcy + r + 1) - 1
        xs == Max(0, tcx - r) .. Min(MAP_WIDTH, tcx + r + 1) - 1
    IN  [y \in Rows |-> [x \in Cols |->
            IF y \in ys /\ x \in xs THEN FLOOR_TILE ELSE g[y][x]]]

\* Game.__init__, lines 184-185
player_start_x == ((MAP_WIDTH * TILE_SIZE) \div 2) * PX
player_start_y == ((MAP_HEIGHT * TILE_SIZE) \div 2) * PX

\* Python's list indexing, as in self.map[tile_y][tile_x] (line 270): an
\* index of -n .. -1 counts from the end of the list
Index(i, n) == IF i >= 0 THEN i ELSE i + n

\* self.map[ty][tx]: the tile read, or IndexError when an index is outside
\* -n .. n-1
map_cell(g, tx, ty) ==
    IF /\ ty \in -MAP_HEIGHT .. MAP_HEIGHT - 1
       /\ tx \in -MAP_WIDTH .. MAP_WIDTH - 1
    THEN [err |-> FALSE,
          tile |-> g[Index(ty, MAP_HEIGHT)][Index(tx, MAP_WIDTH)]]
    ELSE [err |-> TRUE, tile |-> WALL_TILE]

\* a variant of is_walkable that tests the upper limits only
is_walkable_call_no_lower(g, x, y) ==
    IF x >= MAP_WIDTH * TILE \/ y >= MAP_HEIGHT * TILE
    THEN [result |-> FALSE, read |-> <<>>, err |-> FALSE]
    ELSE LET c == map_cell(g, x \div TILE, y \div TILE)
         IN  [result |-> ~c.err /\ c.tile = FLOOR_TILE,
              read |-> <<x \div TILE, y \div TILE>>, err |-> c.err]

\* Game.is_walkable with what the call does: the value returned, the
\* indices (tile_x, tile_y) of the cell it reads (<<>> when it reads none)
\* and whether the read raises IndexError
is_walkable_call(g, x, y) ==
    IF x < 0 \/ x >= MAP_WIDTH * TILE \/ y < 0 \/ y >= MAP_HEIGHT * TILE
    THEN [result |-> FALSE, read |-> <<>>, err |-> FALSE]
    ELSE LET c == map_cell(g, x \div TILE, y \div TILE)
         IN  [result |-> ~c.err /\ c.tile = FLOOR_TILE,
              read |-> <<x \div TILE, y \div TILE>>, err |-> c.err]

\* Game.is_walkable: the value returned
is_walkable(g, x, y) == is_walkable_call(g, x, y).result


\* ------------------------------------------------------------- entities
\* a variant of move_with_collision that commits the y displacement
\* without asking is_walkable
move_with_collision_y_free(g, e, dx, dy) ==
    LET new_x == e.x + dx
        x1 == IF is_walkable(g, new_x, e.y) THEN new_x ELSE e.x
    IN  [e EXCEPT !.x = x1, !.y = e.y + dy]

\* Entity.move_with_collision: the x displacement first, then the y
\* displacement from the x reached
move_with_collision(g, e, dx, dy) ==
    LET new_x == e.x + dx
        x1 == IF is_walkable(g, new_x, e.y) THEN new_x ELSE e.x
        new_y == e.y + dy
        y1 == IF is_walkable(g, x1, new_y) THEN new_y ELSE e.y
    IN  [e EXCEPT !.x = x1, !.y = y1]

\* Player.__init__ (shield_angle only drives the drawing and is left out)
Player(x, y) ==
    [x |-> x, y |-> y, hp |-> PLAYER_HP, shield_active |-> FALSE,
     shield_timer |-> 0, shield_cooldown |-> 0, reload_timer |-> 0]

\* Player.activate_shield
activate_shield(p) ==
    [p EXCEPT !.shield_active = TRUE, !.shield_timer = SHIELD_DURATION]

\* a variant of the shield request that forgets the cooldown
ShieldRequestAnyTime(p, in) == IF in.shield THEN activate_shield(p) ELSE p

\* Player.update, lines 99-101: the right click is honoured when the
\* cooldown is over
ShieldRequest(p, in) ==
    IF in.shield /\ p.shield_cooldown = 0 THEN activate_shield(p) ELSE p

\* Player.update, lines 103-111
ShieldTick(p) ==
    IF p.shield_active
    THEN IF p.shield_timer - 1 <= 0
         THEN [p EXCEPT !.shield_timer = @ - 1, !.shield_active = FALSE,
                        !.shield_cooldown = SHIELD_COOLDOWN]
         ELSE [p EXCEPT !.shield_timer = @ - 1]
    ELSE IF p.shield_cooldown > 0
         THEN [p EXCEPT !.shield_cooldown = @ - 1]
         ELSE p

\* Player.update, lines 113-114
ReloadTick(p) ==
    IF p.reload_timer > 0 THEN [p EXCEPT !.reload_timer = @ - 1] ELSE p

\* Player.update, lines 88-96: the displacement asked by the held keys
KeyDx(in) == (IF "D" \in in.keys THEN PLAYER_SPEED ELSE 0)
             - (IF "Q" \in in.keys THEN PLAYER_SPEED ELSE 0)
KeyDy(in) == (IF "S" \in in.keys THEN PLAYER_SPEED ELSE 0)
             - (IF "Z" \in in.keys THEN PLAYER_SPEED ELSE 0)

\* Player.update
Player_update(g, p, in) ==
    ReloadTick(ShieldTick(ShieldRequest(
        move_with_collision(g, p, KeyDx(in), KeyDy(in)), in)))

\* Player.can_shoot
can_shoot(p) == p.reload_timer = 0

\* Player.shoot
shoot(p) == [p EXCEPT !.reload_timer = RELOAD_TIME]

\* Bullet.__init__
Bullet(x, y, vx, vy, owner) ==
    [x |-> x, y |-> y, vx |-> vx, vy |-> vy, active |-> TRUE, owner |-> owner]

\* Bullet.update
Bullet_update(g, b) ==
    LET m == move_with_collision(g, b, b.vx, b.vy)
        out == \/ m.x < 0 \/ m.x >= MAP_WIDTH * TILE
               \/ m.y < 0 \/ m.y >= MAP_HEIGHT * TILE
    IN  IF out \/ ~is_walkable(g, m.x, m.y)
        THEN [m EXCEPT !.active = FALSE]
        ELSE m

\* math.hypot(dx, dy) ** 2
Dist2(dx, dy) == dx * dx + dy * dy

\* math.hypot(ax - bx, ay - by) < r, for r in pixels
Within(ax, ay, bx, by, r) == Dist2(ax - bx, ay - by) < (r * PX) * (r * PX)

Abs(n) == IF n < 0 THEN -n ELSE n

\* (d / dist) * speed with dist = hypot(dx, dy) # 0, truncated to the
\* resolution of the coordinates; d is dx or dy
Component(d, dx, dy, speed) ==
    LET n == (Abs(d) * speed) * (Abs(d) * speed)
        c == CHOOSE c \in 0 .. speed :
                /\ c * c * Dist2(dx, dy) <= n
                /\ (c + 1) * (c + 1) * Dist2(dx, dy) > n
    IN  IF d < 0 THEN -c ELSE c

\* ((dx / dist) * speed, (dy / dist) * speed) with dist = hypot(dx, dy),
\* lines 155-156 and 291-292: the division raises ZeroDivisionError when
\* dist is 0
Direction(dx, dy, speed) ==
    IF Dist2(dx, dy) = 0
    THEN [fault |-> TRUE, x |-> 0, y |-> 0]
    ELSE [fault |-> FALSE, x |-> Component(dx, dx, dy, speed),
          y |-> Component(dy, dx, dy, speed)]

\* Enemy.__init__; age and shots count the update calls made on the enemy
\* and the bullets it has appended, hits the player bullets that struck
\* it; fault tells that its update raised an exception
Enemy(x, y, etype) ==
    [x |-> x, y |-> y, etype |-> etype, hp |-> ENEMY_HP,
     reload_timer |-> ENEMY_RELOAD, age |-> 0, shots |-> 0, hits |-> 0,
     fault |-> FALSE]

\* a variant of the enemy's step without the test of the distance
EnemyMoveUnguarded(g, e, p) ==
    LET d == Direction(p.x - e.x, p.y - e.y, EnemySpeed(e.etype))
    IN  [move_with_collision(g, e, d.x, d.y) EXCEPT !.fault = d.fault]

\* Enemy.update, lines 151-157: one step towards the player
EnemyMove(g, e, p) ==
    LET d == Direction(p.x - e.x, p.y - e.y, EnemySpeed(e.etype))
    IN  IF Dist2(p.x - e.x, p.y - e.y) # 0
        THEN [move_with_collision(g, e, d.x, d.y) EXCEPT !.fault = d.fault]
        ELSE e

\* a variant of the Shooter's test that waits for a negative timer
ShooterFiresLate(e) == e.etype = SHOOTER /\ e.reload_timer < 0

\* Enemy.update, line 159: a Shooter fires in this call
ShooterFires(e) == e.etype = SHOOTER /\ e.reload_timer <= 0

\* Enemy.update, lines 161-162: the bullet of a Shooter that was at e
\* before its move and is at m after it; atan2(0, 0) is 0
ShooterBullet(e, m, p) ==
    LET dx == p.x - e.x
        dy == p.y - e.y
        sp == ENEMY_BULLET_SPEED * PX
    IN  IF Dist2(dx, dy) = 0
        THEN Bullet(m.x, m.y, sp, 0, "enemy")
        ELSE Bullet(m.x, m.y, Component(dx, dx, dy, sp),
                    Component(dy, dx, dy, sp), "enemy")

\* a variant of the Bomber's test that forgets the timer
BomberDetonatesNear(e, p) ==
    e.etype = BOMBER /\ Within(p.x, p.y, e.x, e.y, BOMBER_RADIUS)

\* Enemy.update, line 164: a Bomber detonates in this call
BomberDetonates(e, p) ==
    /\ e.etype = BOMBER
    /\ \/ Within(p.x, p.y, e.x, e.y, BOMBER_RADIUS)
       \/ e.reload_timer <= 0

\* the distance under which a detonation would reach the player, in pixels
BLAST_RADIUS == 16

\* a variant of the detonation that takes one hp from an unshielded player
\* within BLAST_RADIUS
BomberBlastDamages(e, p) ==
    IF Within(p.x, p.y, e.x, e.y, BLAST_RADIUS) /\ ~p.shield_active
    THEN [p EXCEPT !.hp = @ - 1]
    ELSE p

\* Enemy.update, lines 165-167: the player after a detonation; the branch
\* taken within BLAST_RADIUS of an unshielded player is empty
BomberBlast(e, p) == p

\* Enemy.update: the enemy after the call, the bullet collection and the
\* player
Enemy_update(g, e, p, bs) ==
    LET m == EnemyMove(g, e, p)
        fires == ShooterFires(e)
        m1 == IF fires
              THEN [m EXCEPT !.reload_timer = ENEMY_RELOAD, !.shots = @ + 1]
              ELSE m
        m2 == IF BomberDetonates(e, p) THEN [m1 EXCEPT !.hp = 0] ELSE m1
    IN  [enemy |-> [m2 EXCEPT !.reload_timer = @ - 1, !.age = @ + 1],
         bullets |-> IF fires THEN Append(bs, ShooterBullet(e, m, p)) ELSE bs,
         player |-> IF BomberDetonates(e, p) THEN BomberBlast(e, p) ELSE p]

\* a variant of is_alive that counts an enemy at hp 0 as alive
is_alive_at_zero(e) == e.hp >= 0

\* Enemy.is_alive
is_alive(e) == e.hp > 0

\* ------------------------------------------------- collision resolution
\* Game.update, line 303: the enemy e takes the player bullet b
EnemyHit(e, b) ==
    is_alive(e) /\ Within(b.x, b.y, e.x, e.y, BULLET_COLLISION_RADIUS)

\* a variant of the scan that keeps the last enemy met instead of
\* leaving the loop at the first
LastHit(es, b) ==
    LET js == {j \in 1 .. Len(es) : EnemyHit(es[j], b)}
    IN  IF js = {} THEN 0 ELSE CHOOSE j \in js : \A l \in js : j >= l

\* Game.update, lines 302-306: the index of the enemy that takes the
\* player bullet b, the first in collection order; 0 when b meets none
FirstHit(es, b) ==
    LET js == {j \in 1 .. Len(es) : EnemyHit(es[j], b)}
    IN  IF js = {} THEN 0 ELSE CHOOSE j \in js : \A l \in js : j <= l

\* Game.update, line 304
DamageEnemy(e) == [e EXCEPT !.hp = @ - 1, !.hits = @ + 1]

\* a variant of the damage that forgets the shield
DamagePlayerShielded(p) == [p EXCEPT !.hp = @ - 1]

\* Game.update, lines 310-311: an enemy bullet has reached the player
DamagePlayer(p) == IF ~p.shield_active THEN [p EXCEPT !.hp = @ - 1] ELSE p

\* Game.update, line 308
PlayerHit(p, b) == Within(b.x, b.y, p.x, p.y, BULLET_COLLISION_RADIUS)

\* Game.update, lines 298-311, from the i-th bullet on; st holds the
\* bullets, the enemies, the player, the count of enemy bullets that
\* reached the player and the log of the hits on enemies, a pair
\* <<index of the bullet, index of the enemy>> for each, in order
RECURSIVE Resolve(_, _)
Resolve(i, st) ==
    IF i > Len(st.bullets)
    THEN st
    ELSE LET b == st.bullets[i]
             j == FirstHit(st.enemies, b)
         IN  IF ~b.active
             THEN Resolve(i + 1, st)
             ELSE IF b.owner = "player"
             THEN IF j = 0
                  THEN Resolve(i + 1, st)
                  ELSE Resolve(i + 1,
                         [st EXCEPT !.enemies[j] = DamageEnemy(@),
                                    !.bullets[i].active = FALSE,
                                    !.log = Append(@, <<i, j>>)])
             ELSE IF b.owner = "enemy" /\ PlayerHit(st.player, b)
             THEN Resolve(i + 1,
                    [st EXCEPT !.bullets[i].active = FALSE,
                               !.player = DamagePlayer(@),
                               !.reached = @ + 1])
             ELSE Resolve(i + 1, st)

\* a variant of the filter's test that keeps every bullet
IsActiveOrNot(b) == TRUE

\* Game.update, line 312: the test of the filter
IsActive(b) == b.active

\* Game.update, lines 314-315, from the i-th enemy on
RECURSIVE EnemyPhase(_, _, _, _, _)
EnemyPhase(g, i, es, p, bs) ==
    IF i > Len(es)
    THEN [enemies |-> es, bullets |-> bs, player |-> p]
    ELSE LET r == Enemy_update(g, es[i], p, bs)
         IN  EnemyPhase(g, i + 1, [es EXCEPT ![i] = r.enemy], r.player,
                        r.bullets)

\* ------------------------------------------------------------ the input
WINDOW_WIDTH == 160
WINDOW_HEIGHT == 120

\* Game.camera_x and Game.camera_y
camera_x(p) ==
    Max(0, Min(p.x - (WINDOW_WIDTH * PX) \div 2,
               MAP_WIDTH * TILE - WINDOW_WIDTH * PX))
camera_y(p) ==
    Max(0, Min(p.y - (WINDOW_HEIGHT * PX) \div 2,
               MAP_HEIGHT * TILE - WINDOW_HEIGHT * PX))

\* Game.update, lines 285-293: the bullets after a shot aimed at the
\* pointer; no bullet when the pointer is on the player
FireBullet(p, in, bs) ==
    LET dx == in.mouse[1] + camera_x(p) - p.x
        dy == in.mouse[2] + camera_y(p) - p.y
        d == Direction(dx, dy, BULLET_SPEED * PX)
    IN  IF Dist2(dx, dy) # 0
        THEN Append(bs, Bullet(p.x, p.y, d.x, d.y, "player"))
        ELSE bs

\* Game.update, lines 289-292: the shot raises ZeroDivisionError
FireFault(p, in) ==
    LET dx == in.mouse[1] + camera_x(p) - p.x
        dy == in.mouse[2] + camera_y(p) - p.y
    IN  Dist2(dx, dy) # 0 /\ Direction(dx, dy, BULLET_SPEED * PX).fault

\* a variant of the fire check that forgets can_shoot
FireHonouredAnyTime(p, in) == in.fire

\* Game.update, line 284
FireHonoured(p, in) == in.fire /\ can_shoot(p)

\* ---------------------------------------------------------------- state
VARIABLES
    pc,       \* where the program is: inside generate_map ("seeded",
              \* "bordered"), after it ("generated"), after clear_safe_zone
              \* ("carved"), after generate_enemies ("placed"), in the main
              \* loop ("run"), stopped by pyxel.quit ("quit") or by an
              \* exception raised in Game.update ("fault"), or around a
              \* call of is_walkable made on its own ("probe", "probed")
    map,      \* Game.map, map[y][x]
    gen,      \* the arguments and the loop counter of the generation
    player,   \* Game.player
    enemies,  \* Game.enemies
    bullets,  \* Game.bullets
    input,    \* the keys, buttons and pointer sampled by the last tick
    obs,      \* what the last tick did, as seen inside Game.update
    tick,     \* the number of Game.update calls made
    probe     \* the arguments and the outcome of a call of is_walkable
              \* made on its own

vars == <<pc, map, gen, player, enemies, bullets, input, obs, tick, probe>>

\* ----------------------------------------------------- enemy placement
\* the centre of the tile of index t, lines 241-242
TileCentre(t) == t * TILE + TILE \div 2

\* generate_enemies, lines 238-245: a drawn tile is kept
Placeable(g, tx, ty) ==
    /\ g[ty][tx] = FLOOR_TILE
    /\ ~Within(TileCentre(tx), TileCentre(ty), player_start_x, player_start_y,
               SAFE_ZONE_RADIUS * TILE_SIZE)

StartTileX == player_start_x \div TILE
StartTileY == player_start_y \div TILE

\* generate_enemies: the enemy collections it can produce when the tiles
\* that random.randint draws are among tiles (every attempt may fail, so
\* fewer than ENEMY_COUNT is possible)
generate_enemies(g, tiles) ==
    LET one == {Enemy(TileCentre(t[1]), TileCentre(t[2]), et) :
                    t \in {d \in tiles : Placeable(g, d[1], d[2])},
                    et \in ENEMY_TYPES}
    IN  UNION {[1 .. n -> one] : n \in 0 .. ENEMY_COUNT}

\* ---------------------------------------------------------- Game.update
\* obs: is_walkable refused a displacement of the player on an axis;
\* can_shoot() at the fire check; a player bullet was appended; the
\* shield was active during collision resolution; the enemy bullets that
\* reached the player in the tick; those that did since the start while
\* the shield was not active; the lowest enemy hp after collision
\* resolution; the bullets appended by the enemies; the enemies removed;
\* the log of the hits on enemies; the bullets and the enemies as
\* collision resolution left them (lines 298-311); the enemies as their
\* updates left them (lines 314-315), before the dead are removed
NoObs == [refused |-> FALSE, could_shoot |-> TRUE, spawned |-> FALSE,
          shield |-> FALSE, reached |-> 0, unshielded |-> 0, min_hp |-> ENEMY_HP,
          enemy_spawned |-> 0, removed |-> 0, hit_log |-> <<>>,
          bullets_resolved |-> <<>>, enemies_resolved |-> <<>>,
          enemies_updated |-> <<>>]

\* an update of an enemy of the collection raised an exception
EnemyFault(es) == \E i \in 1 .. Len(es) : es[i].fault

\* the lowest hp in a collection of enemies
MinHp(es) ==
    IF es = <<>> THEN ENEMY_HP
    ELSE CHOOSE h \in {es[i].hp : i \in 1 .. Len(es)} :
            \A i \in 1 .. Len(es) : h <= es[i].hp

\* a variant of the termination check with the threshold one too high
TerminatedEarly(p) == p.hp <= 1

\* Game.update, line 318: the game stops
Terminated(p) == p.hp <= 0

\* Game.update with the input in
Game_update(in) ==
    /\ pc = "run"
    /\ \E p1 \in {Player_update(map, player, in)} :
        LET honoured == FireHonoured(p1, in)
            bs0 == IF honoured THEN FireBullet(p1, in, bullets) ELSE bullets
            p2 == IF honoured THEN shoot(p1) ELSE p1
            bs1 == [i \in 1 .. Len(bs0) |-> Bullet_update(map, bs0[i])]
        IN  \E st \in {Resolve(1, [bullets |-> bs1, enemies |-> enemies,
                                    player |-> p2, reached |-> 0,
                                    log |-> <<>>])} :
            \E bs2 \in {SelectSeq(st.bullets, IsActive)} :
            \E ph \in {EnemyPhase(map, 1, st.enemies, st.player, bs2)} :
            \E es \in {SelectSeq(ph.enemies, is_alive)} :
                /\ input' = in
                /\ player' = ph.player
                /\ bullets' = ph.bullets
                /\ enemies' = es
                /\ pc' = IF \/ honoured /\ FireFault(p1, in)
                            \/ EnemyFault(ph.enemies)
                         THEN "fault"
                         ELSE IF Terminated(ph.player) THEN "quit" ELSE "run"
                /\ obs' = [refused |-> \/ KeyDx(in) # 0 /\ p1.x = player.x
                                       \/ KeyDy(in) # 0 /\ p1.y = player.y,
                           could_shoot |-> can_shoot(p1),
                           spawned |-> Len(bs0) > Len(bullets),
                           shield |-> p2.shield_active,
                           reached |-> st.reached,
                           unshielded |-> obs.unshielded
                                + (IF p2.shield_active THEN 0 ELSE st.reached),
                           min_hp |-> MinHp(st.enemies),
                           enemy_spawned |-> Len(ph.bullets) - Len(bs2),
                           removed |-> Len(ph.enemies) - Len(es),
                           hit_log |-> st.log,
                           bullets_resolved |-> st.bullets,
                           enemies_resolved |-> st.enemies,
                           enemies_updated |-> ph.enemies]
                /\ tick' = tick + 1
                /\ UNCHANGED <<map, gen, probe>>

\* ------------------------------------------------- the simulation, played
\* the ticks explored with the player moving and shooting
MaxTick == 14

\* two of the tiles that random.randint can draw: the one just below the
\* carved square's centre column, at the radius of the safe zone, and one
\* of the upper border
TileBelow == <<StartTileX, StartTileY + SAFE_ZONE_RADIUS>>
TileAbove == <<StartTileX, 0>>
PointBelow == <<TileCentre(TileBelow[1]), TileCentre(TileBelow[2])>>
PointAbove == <<TileCentre(TileAbove[1]), TileCentre(TileAbove[2])>>
PointSpawn == <<player_start_x, player_start_y>>

Idle == [keys |-> {}, shield |-> FALSE, fire |-> FALSE, mouse |-> PointSpawn]

\* the inputs of a played tick: the player stands and may click left with
\* the pointer below, above or on the spawn point
PlayInputs ==
    {Idle} \cup {[Idle EXCEPT !.fire = TRUE, !.mouse = m] :
                    m \in {PointBelow, PointAbove, PointSpawn}}

\* gen: the iteration count k, the passes made, the centre and radius of
\* the carve, and the grid as it was before the last step changed it
NoGen == [k |-> SMOOTHING_ITERATIONS, passes |-> SMOOTHING_ITERATIONS,
          cx |-> player_start_x, cy |-> player_start_y, r |-> SAFE_ZONE_RADIUS,
          before |-> <<>>]

\* the seedings the simulation starts from: all floor, all wall
GameSeeds == {SeedGrid({}, {}), SeedGrid(Rows, {})}

\* no call of is_walkable on its own
NoProbe == [x |-> 0, y |-> 0, out |-> <<>>]

\* Game.__init__ up to pyxel.run
GameMap(seed) ==
    clear_safe_zone(generate_map(seed, SMOOTHING_ITERATIONS),
                  player_start_x, player_start_y, SAFE_ZONE_RADIUS)

\* the state when Game.__init__ enters pyxel.run, the enemies on tiles
InitGame(tiles) ==
    /\ pc = "run"
    /\ map \in {GameMap(s) : s \in GameSeeds}
    /\ gen = NoGen
    /\ player = Player(player_start_x, player_start_y)
    /\ enemies \in generate_enemies(map, tiles)
    /\ bullets = <<>>
    /\ input = Idle
    /\ obs = NoObs
    /\ tick = 0
    /\ probe = NoProbe

Init == InitGame({TileBelow})

Play == \E in \in PlayInputs : tick < MaxTick /\ Game_update(in)

Next == Play

Spec == Init /\ [][Next]_vars

\* ------------------------------------------------- the simulation, walked
\* the ticks explored with the player walking
MaxWalkTick == 8

\* the inputs of a walked tick: the player walks up, or down and left, or
\* clicks left with the pointer above
WalkInputs ==
    {[Idle EXCEPT !.keys = {"Z"}], [Idle EXCEPT !.keys = {"S", "Q"}],
     [Idle EXCEPT !.fire = TRUE, !.mouse = PointAbove]}

InitWalk == InitGame({TileAbove})

Walk == \E in \in WalkInputs : tick < MaxWalkTick /\ Game_update(in)

NextWalk == Walk

SpecWalk == InitWalk /\ [][NextWalk]_vars

\* ------------------------------------------------- the simulation, fired
\* the ticks explored with the player standing and shooting at the enemies
MaxSiegeTick == 63

\* the inputs of a fired tick: the player stands and may click left with
\* the pointer below, where the enemies start, or on the spawn point, where
\* the player stands
SiegeInputs ==
    {Idle} \cup {[Idle EXCEPT !.fire = TRUE, !.mouse = m] :
                    m \in {PointBelow, PointSpawn}}

InitSiege == InitGame({TileBelow})

Siege == \E in \in SiegeInputs : tick < MaxSiegeTick /\ Game_update(in)

NextSiege == Siege

SpecSiege == InitSiege /\ [][NextSiege]_vars

\* ---------------------------------------------- the simulation, outlasted
\* the ticks explored with the enemies starting on the upper border, which
\* a wall separates from the player on one of the maps, until their timers
\* have run out
MaxBombTick == 62

\* the inputs of an outlasted tick: the player stands and may click right
BombInputs == {Idle, [Idle EXCEPT !.shield = TRUE]}

InitBomb == InitGame({TileAbove})

Outlast == \E in \in BombInputs : tick < MaxBombTick /\ Game_update(in)

NextBomb == Outlast

\* pyxel.run (line 194) calls Game.update at every frame until the game
\* stops: a frame is a tick
Frame == pc = "run" /\ tick < MaxBombTick /\ tick' = tick + 1

SpecBomb == InitBomb /\ [][NextBomb]_vars /\ WF_tick(Frame)

\* ------------------------------------------------ the simulation, waited
\* the ticks explored with the player standing
MaxLongTick == 125

\* the inputs of a waited tick: the player stands and may click right
WaitInputs == {Idle, [Idle EXCEPT !.shield = TRUE]}

InitLong == InitGame({TileBelow})

Wait == \E in \in WaitInputs : tick < MaxLongTick /\ Game_update(in)

NextLong == Wait

SpecLong == InitLong /\ [][NextLong]_vars

\* ------------------------------------------------------- the generation
\* the centres given to clear_safe_zone: the spawn point, the first pixel
\* of the map, and a point of the last column
CarveCentres ==
    {<<player_start_x, player_start_y>>, <<0, 0>>,
     <<MAP_WIDTH * TILE - 1, player_start_y>>}

\* generate_map has drawn the random grid (lines 197-201) and is given the
\* iteration count k
InitGen ==
    /\ pc = "seeded"
    /\ map \in SeedGrids
    /\ gen \in {[NoGen EXCEPT !.k = k, !.passes = 0] : k \in 0 .. MaxK}
    /\ player = Player(player_start_x, player_start_y)
    /\ enemies = <<>>
    /\ bullets = <<>>
    /\ input = Idle
    /\ obs = NoObs
    /\ tick = 0
    /\ probe = NoProbe

\* generate_map, lines 202-207
BorderStep ==
    /\ pc = "seeded"
    /\ map' = ForceBorder(map)
    /\ gen' = [gen EXCEPT !.before = map]
    /\ pc' = "bordered"
    /\ UNCHANGED <<player, enemies, bullets, input, obs, tick, probe>>

\* generate_map, lines 208-223: one iteration of the smoothing loop
SmoothStep ==
    /\ pc = "bordered"
    /\ gen.passes < gen.k
    /\ map' = SmoothPass(map)
    /\ gen' = [gen EXCEPT !.passes = @ + 1, !.before = map]
    /\ UNCHANGED <<pc, player, enemies, bullets, input, obs, tick, probe>>

\* generate_map, line 224
ReturnMap ==
    /\ pc = "bordered"
    /\ gen.passes = gen.k
    /\ pc' = "generated"
    /\ UNCHANGED <<map, gen, player, enemies, bullets, input, obs, tick, probe>>

\* clear_safe_zone, called on the generated map
CarveStep ==
    /\ pc = "generated"
    /\ \E c \in CarveCentres, r \in 0 .. SAFE_ZONE_RADIUS :
        /\ map' = clear_safe_zone(map, c[1], c[2], r)
        /\ gen' = [gen EXCEPT !.cx = c[1], !.cy = c[2], !.r = r,
                              !.before = map]
    /\ pc' = "carved"
    /\ UNCHANGED <<player, enemies, bullets, input, obs, tick, probe>>

\* the tiles that random.randint draws in the generation: the spawn tile,
\* the tile below it at the radius of the safe zone, and one of the upper
\* border
DrawnTiles == {<<StartTileX, StartTileY>>, TileBelow, TileAbove}

\* generate_enemies, called by Game.__init__ (line 189) on the map carved
\* around the spawn point with SAFE_ZONE_RADIUS (line 186)
PlaceStep ==
    /\ pc = "carved"
    /\ gen.cx = player_start_x /\ gen.cy = player_start_y
    /\ gen.r = SAFE_ZONE_RADIUS
    /\ enemies' \in generate_enemies(map, DrawnTiles)
    /\ pc' = "placed"
    /\ UNCHANGED <<map, gen, player, bullets, input, obs, tick, probe>>

NextGen == BorderStep \/ SmoothStep \/ ReturnMap \/ CarveStep \/ PlaceStep

SpecGen == InitGen /\ [][NextGen]_vars

\* ------------------------------------- the generation, then the simulation
\* the ticks explored after a generation
MaxLifeTick == 10

\* the seedings a whole run starts from: all floor, all wall (the outcome
\* of INITIAL_WALL_PROBABILITY = 1.0), stripes and a checkerboard
LifeSeeds ==
    {SeedGrid({}, {}), SeedGrid(Rows, {}), SeedGrid({2}, {}),
     SeedGrid({1, 3, 5}, {1, 3, 5})}

\* the inputs of a tick of a whole run: the player stands and may click
\* left with the pointer below
LifeInputs == {Idle, [Idle EXCEPT !.fire = TRUE, !.mouse = PointBelow]}

InitLife ==
    /\ pc = "seeded"
    /\ map \in LifeSeeds
    /\ gen \in {[NoGen EXCEPT !.k = k, !.passes = 0] : k \in 0 .. MaxK}
    /\ player = Player(player_start_x, player_start_y)
    /\ enemies = <<>>
    /\ bullets = <<>>
    /\ input = Idle
    /\ obs = NoObs
    /\ tick = 0
    /\ probe = NoProbe

\* Game.__init__, lines 190-194: the bullets are empty and pyxel.run
\* starts the main loop
EnterRun ==
    /\ pc = "placed"
    /\ bullets' = <<>>
    /\ pc' = "run"
    /\ UNCHANGED <<map, gen, player, enemies, input, obs, tick, probe>>

Live == \E in \in LifeInputs : tick < MaxLifeTick /\ Game_update(in)

NextLife ==
    BorderStep \/ SmoothStep \/ ReturnMap \/ CarveStep \/ PlaceStep
        \/ EnterRun \/ Live

SpecLife == InitLife /\ [][NextLife]_vars

\* ------------------------------------------------- is_walkable, probed
\* the coordinates given to is_walkable on an axis of n tiles: under 0,
\* at 0, around the first tile limit, around the map limit and beyond it
ProbeCoords(n) ==
    {-TILE - 1, -TILE, -1, 0, TILE - 1, TILE, n * TILE - 1, n * TILE,
     n * TILE + 1, 2 * n * TILE}

\* the game is constructed and is_walkable is about to be called
InitProbe ==
    /\ pc = "probe"
    /\ map \in {GameMap(s) : s \in GameSeeds}
    /\ gen = NoGen
    /\ player = Player(player_start_x, player_start_y)
    /\ enemies = <<>>
    /\ bullets = <<>>
    /\ input = Idle
    /\ obs = NoObs
    /\ tick = 0
    /\ probe \in {[NoProbe EXCEPT !.x = x, !.y = y] :
                    x \in ProbeCoords(MAP_WIDTH), y \in ProbeCoords(MAP_HEIGHT)}

\* is_walkable(x, y) is called
Probe ==
    /\ pc = "probe"
    /\ probe' = [probe EXCEPT !.out = is_walkable_call(map, probe.x, probe.y)]
    /\ pc' = "probed"
    /\ UNCHANGED <<map, gen, player, enemies, bullets, input, obs, tick>>

NextProbe == Probe

SpecProbe == InitProbe /\ [][NextProbe]_vars

\* ------------------------------------------------------------ the claims
InGame == pc \in {"run", "quit"}

\* a tick has just been made
Ticked == tick' = tick + 1

\* the displacement of the bullet b is refused on an axis by is_walkable
Blocked(g, b) ==
    LET m == move_with_collision(g, b, b.vx, b.vy)
    IN  (b.vx # 0 /\ m.x = b.x) \/ (b.vy # 0 /\ m.y = b.y)

\* C1: a bullet of the collection whose displacement is blocked in a tick,
\* by a wall tile or by the edge of the map, is deactivated by that
\* Bullet.update and so is not in the collection when the tick ends.
C1_BulletLifecycle ==
    [][Ticked =>
        \A i \in 1 .. Len(bullets) :
            Blocked(map, bullets[i]) =>
                \A j \in 1 .. Len(bullets') :
                    bullets'[j] # Bullet_update(map, bullets[i])]_vars

AllWalkable ==
    /\ is_walkable(map, player.x, player.y)
    /\ \A i \in 1 .. Len(enemies) : is_walkable(map, enemies[i].x, enemies[i].y)
    /\ \A i \in 1 .. Len(bullets) : is_walkable(map, bullets[i].x, bullets[i].y)

\* C2: after startup and after any sequence of ticks the player, every
\* enemy and every bullet of the collections are at walkable coordinates:
\* move_with_collision never leaves a walkable entity in a wall or outside
\* the map.
C2_Containment == InGame => AllWalkable

\* C2, witness: the player has just walked up into a wall, which refused
\* the displacement, with an enemy in the collection and a bullet that the
\* wall blocks.
C2_Witness ==
    /\ pc = "run"
    /\ obs.refused
    /\ "Z" \in input.keys
    /\ enemies # <<>>
    /\ \E i \in 1 .. Len(bullets) : Blocked(map, bullets[i])
    /\ AllWalkable

\* C3: when generate_map returns, every cell of row 0, row H-1, column 0
\* and column W-1 is a wall, whatever the seeding and the iteration count.
C3_BorderInvariant ==
    pc = "generated" =>
        \A y \in Rows, x \in Cols : IsBorder(x, y) => map[y][x] = WALL_TILE

\* C4: the shield is never active while its cooldown runs, and a right
\* click made in a tick that starts with shield_cooldown > 0 changes
\* nothing: the shield stays inactive, shield_timer keeps its value and the
\* cooldown goes down by one as in any other tick.
C4_ShieldExclusion ==
    /\ [](~(player.shield_active /\ player.shield_cooldown > 0))
    /\ [][(Ticked /\ input'.shield /\ player.shield_cooldown > 0) =>
            /\ ~player'.shield_active
            /\ player'.shield_timer = player.shield_timer
            /\ player'.shield_cooldown = player.shield_cooldown - 1]_vars

\* C4, witness: a right click was made in a tick of the cooldown (the
\* shield is inactive after the tick and the cooldown is under way).
C4_Witness ==
    /\ pc = "run"
    /\ input.shield
    /\ ~player.shield_active
    /\ player.shield_cooldown \in 1 .. SHIELD_COOLDOWN - 1

\* C5: reload_timer stays within 0 .. RELOAD_TIME; a left click in a tick
\* where can_shoot() is false at the fire check (the timer was above 1
\* when the tick began) adds no bullet and leaves the timer to its
\* decrement; and in every tick the timer either goes down by exactly one
\* (staying at 0 once there) or is set to RELOAD_TIME by an honoured shot.
C5_FireRateGating ==
    /\ [](player.reload_timer \in 0 .. RELOAD_TIME)
    /\ [][Ticked =>
            /\ obs'.could_shoot <=> player.reload_timer <= 1
            /\ IF input'.fire /\ obs'.could_shoot
               THEN player'.reload_timer = RELOAD_TIME
               ELSE /\ player'.reload_timer = Max(player.reload_timer - 1, 0)
                    /\ ~obs'.spawned]_vars

\* C5, witness: a left click was refused in the middle of a reload.
C5_Witness ==
    /\ pc = "run"
    /\ input.fire
    /\ ~obs.could_shoot
    /\ player.reload_timer \in 1 .. RELOAD_TIME - 1
    /\ bullets # <<>>

\* C6: in a tick the player's hp goes down by exactly the number of enemy
\* bullets that reach the player when the shield is not active, so hp is
\* PLAYER_HP less the unshielded hits; the game is stopped exactly when
\* hp <= 0, that is from the tick of the third unshielded hit, and no tick
\* starts with hp <= 0.
C6_PlayerDeath ==
    /\ [](InGame => /\ pc = "quit" <=> player.hp <= 0
                    /\ player.hp = PLAYER_HP - obs.unshielded
                    /\ pc = "quit" <=> obs.unshielded >= PLAYER_HP)
    /\ [][Ticked =>
            /\ player.hp > 0
            /\ ~obs'.shield => player'.hp = player.hp - obs'.reached]_vars

\* C6, witness: the player started at hp 3, was hit while unshielded in
\* the last tick, is at hp <= 0 and the game is stopped.
C6_Witness ==
    /\ pc = "quit"
    /\ player.hp <= 0
    /\ ~obs.shield
    /\ obs.reached >= 1

\* C7: every enemy of the collection has hp >= 1 when a tick ends, its hp
\* is ENEMY_HP less the hits it took (one per hit), collision resolution
\* never takes an enemy below 0, and an enemy brought to 0 is removed in
\* the same tick.
C7_EnemyDeath ==
    InGame =>
        /\ \A i \in 1 .. Len(enemies) :
            /\ enemies[i].hp >= 1
            /\ enemies[i].hp = ENEMY_HP - enemies[i].hits
        /\ obs.min_hp >= 0
        /\ obs.min_hp = 0 => obs.removed >= 1

\* C7, witness: collision resolution has brought an enemy to hp 0 and the
\* enemy was removed at the end of the tick.
C7_Witness ==
    /\ pc = "run"
    /\ obs.min_hp = 0
    /\ obs.removed >= 1

\* C8, as claimed: after its calls 1 .. 59 a Shooter has spawned no bullet
\* and after call 60 it has spawned exactly one.
C8_ShooterFiresAt60 ==
    InGame =>
        \A i \in 1 .. Len(enemies) :
            enemies[i].etype = SHOOTER =>
                /\ enemies[i].age < ENEMY_RELOAD => enemies[i].shots = 0
                /\ enemies[i].age = ENEMY_RELOAD => enemies[i].shots = 1

\* C8, amended: after its calls 1 .. 60 a Shooter has spawned no bullet,
\* and after call 61 it has spawned exactly one, owned by "enemy".
C8_ShooterFiresAt61 ==
    InGame =>
        /\ \A i \in 1 .. Len(enemies) :
            enemies[i].etype = SHOOTER =>
                /\ enemies[i].age <= ENEMY_RELOAD => enemies[i].shots = 0
                /\ enemies[i].age = ENEMY_RELOAD + 1 => enemies[i].shots = 1
        /\ tick <= ENEMY_RELOAD =>
                \A j \in 1 .. Len(bullets) : bullets[j].owner # "enemy"
        /\ \A j \in Len(bullets) - obs.enemy_spawned + 1 .. Len(bullets) :
                bullets[j].owner = "enemy" /\ bullets[j].active

\* C8, witness: a Shooter has just made its call 61 and spawned its first
\* bullet in it.
C8_Witness ==
    /\ pc = "run"
    /\ obs.enemy_spawned >= 1
    /\ \E i \in 1 .. Len(enemies) :
        /\ enemies[i].etype = SHOOTER
        /\ enemies[i].age = ENEMY_RELOAD + 1
        /\ enemies[i].shots = 1

\* C9: in a tick whose collision resolution runs with the shield active
\* the player's hp does not change, and no enemy bullet that was within
\* BULLET_COLLISION_RADIUS of the player survives the tick (the bullets
\* appended by the Shooters afterwards are not concerned).
C9_ShieldImmunity ==
    /\ [][(Ticked /\ obs'.shield) => player'.hp = player.hp]_vars
    /\ [](InGame /\ obs.shield =>
            \A j \in 1 .. Len(bullets) - obs.enemy_spawned :
                bullets[j].owner = "enemy" => ~PlayerHit(player, bullets[j]))

\* C9, witness: two enemy bullets reached the player in a tick where the
\* shield was active, and the player still has all its hp.
C9_Witness ==
    /\ pc = "run"
    /\ obs.shield
    /\ obs.reached >= 2
    /\ player.hp = PLAYER_HP

\* the tile (x, y) is in the inclusive square of radius r around the tile
\* that contains the point (cx, cy)
InSquare(x, y, cx, cy, r) ==
    /\ Abs(x - cx \div TILE) <= r
    /\ Abs(y - cy \div TILE) <= r

\* C10: after clear_safe_zone(centre, R) every tile of the grid within the
\* inclusive (2R+1)-square around the tile of the centre is floor; when
\* the centre is the spawn point, the tile under the player is floor.
C10_SafeZone ==
    pc = "carved" =>
        /\ \A y \in Rows, x \in Cols :
            InSquare(x, y, gen.cx, gen.cy, gen.r) => map[y][x] = FLOOR_TILE
        /\ (gen.cx = player_start_x /\ gen.cy = player_start_y) =>
            is_walkable(map, player_start_x, player_start_y)

\* C10, witness: a carve of radius SAFE_ZONE_RADIUS around the spawn point
\* has turned a wall of the square's last row and column into floor.
C10_Witness ==
    /\ pc = "carved"
    /\ gen.r = SAFE_ZONE_RADIUS
    /\ gen.cx = player_start_x /\ gen.cy = player_start_y
    /\ gen.before[StartTileY + gen.r][StartTileX + gen.r] = WALL_TILE
    /\ map[StartTileY + gen.r][StartTileX + gen.r] = FLOOR_TILE

\* C11: every enemy created by generate_enemies is at the centre of a floor
\* tile, and that tile is outside the inclusive (2R+1)-square around the
\* spawn tile that clear_safe_zone carved.
C11_EnemyPlacement ==
    pc = "placed" =>
        \A i \in 1 .. Len(enemies) :
            LET tx == enemies[i].x \div TILE
                ty == enemies[i].y \div TILE
            IN  /\ enemies[i].x = TileCentre(tx)
                /\ enemies[i].y = TileCentre(ty)
                /\ tx \in Cols /\ ty \in Rows
                /\ map[ty][tx] = FLOOR_TILE
                /\ ~InSquare(tx, ty, player_start_x, player_start_y,
                             SAFE_ZONE_RADIUS)

\* the point (x, y) is inside the map
InMap(x, y) ==
    /\ 0 <= x /\ x < MAP_WIDTH * TILE
    /\ 0 <= y /\ y < MAP_HEIGHT * TILE

\* C12: for every pair (x, y), negative or beyond the map included,
\* is_walkable returns a boolean without error and reads no cell outside the
\* grid; it returns true iff the point is inside the map and the tile that
\* contains it is floor.
C12_WalkableTotal ==
    pc = "probed" =>
        /\ ~probe.out.err
        /\ probe.out.result \in BOOLEAN
        /\ probe.out.read # <<>> =>
                probe.out.read[1] \in Cols /\ probe.out.read[2] \in Rows
        /\ probe.out.result <=>
                IF InMap(probe.x, probe.y)
                THEN map[probe.y \div TILE][probe.x \div TILE] = FLOOR_TILE
                ELSE FALSE

\* C12, witness: is_walkable was called with a negative x and a y beyond
\* the last row, and returned false without reading the grid.
C12_Witness ==
    /\ pc = "probed"
    /\ probe.x < 0
    /\ probe.y >= MAP_HEIGHT * TILE
    /\ probe.out = [result |-> FALSE, read |-> <<>>, err |-> FALSE]

\* C13: a right click made while the shield is active does not set
\* shield_timer back to SHIELD_DURATION: in every tick that starts with the
\* shield active the timer goes down by one, whatever is requested, so an
\* active period ends at most SHIELD_DURATION ticks after it began.
C13_ShieldNoRestart ==
    [][(Ticked /\ player.shield_active) =>
            player'.shield_timer = player.shield_timer - 1]_vars

\* C14: an enemy whose hp was brought to 0 by player bullets in a tick's
\* collision resolution has no effect but its removal: its update in that
\* tick does not change its position and, for a Shooter, appends no bullet.
C14_NoDeathEffects ==
    InGame =>
        \A j \in 1 .. Len(obs.enemies_resolved) :
            obs.enemies_resolved[j].hp <= 0 =>
                /\ obs.enemies_updated[j].x = obs.enemies_resolved[j].x
                /\ obs.enemies_updated[j].y = obs.enemies_resolved[j].y
                /\ obs.enemies_updated[j].shots = obs.enemies_resolved[j].shots

\* the bullet b has its active flag set
StillActive(b) == b.active = TRUE

\* C15: when a tick ends every bullet of the collection is active: the
\* collection is made of the bullets that collision resolution left
\* active, in order, followed by the bullets the Shooters appended in the
\* enemy phase; a bullet consumed by a hit is absent, so a tick keeps at
\* most the bullets it found and the one fired, less those consumed, and
\* no inactive bullet is ever seen again.
C15_BulletPurge ==
    /\ [](InGame =>
            /\ \A i \in 1 .. Len(bullets) : StillActive(bullets[i])
            /\ SubSeq(bullets, 1, Len(bullets) - obs.enemy_spawned)
                    = SelectSeq(obs.bullets_resolved, StillActive))
    /\ [][Ticked =>
            Len(bullets') - obs'.enemy_spawned
                <= Len(bullets) + (IF obs'.spawned THEN 1 ELSE 0)
                        - Len(obs'.hit_log) - obs'.reached]_vars

\* C15, witness: in the last tick a player bullet was consumed by a hit on
\* an enemy and purged, and a Shooter appended a bullet, which is in the
\* collection and active.
C15_Witness ==
    /\ pc = "run"
    /\ obs.hit_log # <<>>
    /\ \E i \in 1 .. Len(obs.bullets_resolved) :
            ~StillActive(obs.bullets_resolved[i])
    /\ obs.enemy_spawned >= 1
    /\ bullets # <<>>
    /\ bullets[Len(bullets)].owner = "enemy"
    /\ StillActive(bullets[Len(bullets)])

\* the hits of the log on the enemy j made by bullets of index below i
HitsBefore(log, i, j) ==
    Cardinality({k \in 1 .. Len(log) : log[k][1] < i /\ log[k][2] = j})

\* the player bullet b, tested when the enemy e has hp h, hits it
Strikes(b, e, h) ==
    h > 0 /\ Within(b.x, b.y, e.x, e.y, BULLET_COLLISION_RADIUS)

\* C16: in a tick every active player bullet hits at most one enemy: the
\* first in collection order that is alive at that moment (hits by the
\* earlier bullets of the tick counted) and within
\* BULLET_COLLISION_RADIUS.  That enemy loses one hp and the bullet is
\* deactivated; a player bullet with no such enemy stays active; and the
\* hp of every enemy goes down by exactly the hits it took.
C16_FirstMatchWins ==
    [][Ticked =>
        LET log == obs'.hit_log
            bs == obs'.bullets_resolved
            es == obs'.enemies_resolved
            hp(j, i) == enemies[j].hp - HitsBefore(log, i, j)
            hit(i) == {j \in 1 .. Len(es) : <<i, j>> \in {log[k] : k \in 1 .. Len(log)}}
            first(i) == {j \in 1 .. Len(es) :
                            /\ Strikes(bs[i], es[j], hp(j, i))
                            /\ \A l \in 1 .. j - 1 :
                                    ~Strikes(bs[i], es[l], hp(l, i))}
        IN  /\ Len(es) = Len(enemies)
            /\ \A k \in 1 .. Len(log) - 1 : log[k][1] < log[k + 1][1]
            /\ \A i \in 1 .. Len(bs) :
                    IF bs[i].owner = "player"
                    THEN /\ hit(i) = first(i)
                         /\ Cardinality(hit(i)) <= 1
                         /\ bs[i].active <=> hit(i) = {}
                    ELSE hit(i) = {}
            /\ \A j \in 1 .. Len(es) :
                    es[j].hp = enemies[j].hp - HitsBefore(log, Len(bs) + 1, j)
    ]_vars

\* C16, witness: in the last tick a player bullet had two living enemies
\* within BULLET_COLLISION_RADIUS; it hit the first of the collection and
\* left the second untouched.
C16_Witness ==
    /\ pc = "run"
    /\ obs.hit_log = <<<<1, 1>>>>
    /\ Len(obs.enemies_resolved) = 2
    /\ ~obs.bullets_resolved[1].active
    /\ obs.enemies_resolved[1].hits = 1
    /\ obs.enemies_resolved[2].hits = 0
    /\ Strikes(obs.bullets_resolved[1], obs.enemies_resolved[2],
               obs.enemies_resolved[2].hp)

\* the Bomber e, about to make an update with the player at p, is within
\* BOMBER_RADIUS of the player or has made ENEMY_RELOAD updates, which have
\* taken its timer from ENEMY_RELOAD to 0
BomberDue(e, p) ==
    \/ Dist2(p.x - e.x, p.y - e.y) < (BOMBER_RADIUS * PX) * (BOMBER_RADIUS * PX)
    \/ e.age >= ENEMY_RELOAD

\* C17: a Bomber is destroyed, hp forced to 0 by its update and removed
\* when the tick ends, in the first tick in which it is within 8 pixels of
\* the player or its timer is <= 0 at its update, and in no tick before; its
\* timer is ENEMY_RELOAD less the updates it has made, so no Bomber makes
\* more than ENEMY_RELOAD + 1 updates, and while ticks keep running every
\* Bomber ends up removed from the collection.
C17_BomberDetonation ==
    /\ [](InGame =>
            \A i \in 1 .. Len(enemies) :
                enemies[i].etype = BOMBER =>
                    /\ enemies[i].reload_timer = ENEMY_RELOAD - enemies[i].age
                    /\ enemies[i].age <= ENEMY_RELOAD)
    /\ [][Ticked =>
            /\ \A j \in 1 .. Len(obs'.enemies_resolved) :
                    LET e == obs'.enemies_resolved[j]
                        u == obs'.enemies_updated[j]
                    IN  e.etype = BOMBER =>
                            /\ BomberDue(e, player') => u.hp = 0
                            /\ ~BomberDue(e, player') => u.hp = e.hp
            /\ \A i \in 1 .. Len(enemies') : enemies'[i].hp > 0
            /\ Len(enemies') = Cardinality({j \in 1 .. Len(obs'.enemies_updated) :
                                              obs'.enemies_updated[j].hp > 0})
       ]_vars
    /\ <>(pc # "run" \/ \A i \in 1 .. Len(enemies) : enemies[i].etype # BOMBER)

\* C17, witness: a Bomber kept more than 8 pixels away from the player by
\* a wall has made its update 61 with its timer at 0, and was removed.
C17_Witness ==
    /\ pc = "run"
    /\ obs.removed >= 1
    /\ \E j \in 1 .. Len(obs.enemies_resolved) :
        /\ obs.enemies_resolved[j].etype = BOMBER
        /\ obs.enemies_resolved[j].hp > 0
        /\ obs.enemies_resolved[j].age = ENEMY_RELOAD
        /\ obs.enemies_resolved[j].reload_timer = 0
        /\ ~Within(player.x, player.y, obs.enemies_resolved[j].x,
                   obs.enemies_resolved[j].y, BOMBER_RADIUS)
        /\ obs.enemies_updated[j].hp = 0

\* C18: no update of an enemy changes the player's hp, whatever the
\* archetype, the distance and the shield: in every tick the hp lost by the
\* player is the number of enemy bullets that reached it within
\* BULLET_COLLISION_RADIUS if the shield was not active and 0 if it was, so
\* hp never goes up and goes down by at most one per enemy bullet.
C18_NoBlastDamage ==
    [][Ticked =>
        /\ player'.hp <= player.hp
        /\ player.hp - player'.hp <= obs'.reached
        /\ player.hp - player'.hp
                = (IF player'.shield_active THEN 0 ELSE obs'.reached)
        /\ obs'.reached <= Cardinality({i \in 1 .. Len(bullets) :
                                            bullets[i].owner = "enemy"})
    ]_vars

\* C18, witness: in the last tick a Bomber detonated within BLAST_RADIUS of
\* the player, whose shield was not active, and the player still has all
\* its hp.
C18_Witness ==
    /\ pc = "run"
    /\ ~player.shield_active
    /\ player.hp = PLAYER_HP
    /\ \E j \in 1 .. Len(obs.enemies_resolved) :
        /\ obs.enemies_resolved[j].etype = BOMBER
        /\ obs.enemies_resolved[j].hp > 0
        /\ obs.enemies_updated[j].hp = 0
        /\ Within(player.x, player.y, obs.enemies_resolved[j].x,
                  obs.enemies_resolved[j].y, BLAST_RADIUS)

\* the enemy e is exactly where the player p is
OnPlayer(e, p) == e.x = p.x /\ e.y = p.y

\* C19: no tick faults on a division by zero.  An enemy that is exactly at
\* the player's position at its update keeps its position in that tick
\* and still runs the rest of the update: a Shooter whose timer is <= 0
\* fires and rearms, a Bomber detonates, and the timer goes down by one.  A
\* left click whose aim point is the player's position appends no bullet.
C19_ZeroDistanceGuard ==
    /\ [](pc # "fault")
    /\ [][Ticked =>
            /\ \A j \in 1 .. Len(obs'.enemies_resolved) :
                    LET e == obs'.enemies_resolved[j]
                        u == obs'.enemies_updated[j]
                        fires == e.etype = SHOOTER /\ e.reload_timer <= 0
                    IN  OnPlayer(e, player') =>
                            /\ u.x = e.x /\ u.y = e.y
                            /\ u.age = e.age + 1
                            /\ u.shots = e.shots + (IF fires THEN 1 ELSE 0)
                            /\ u.reload_timer =
                                    (IF fires THEN ENEMY_RELOAD
                                              ELSE e.reload_timer) - 1
                            /\ e.etype = BOMBER => u.hp = 0
            /\ ( /\ input'.fire
                 /\ input'.mouse[1] + camera_x(player') = player'.x
                 /\ input'.mouse[2] + camera_y(player') = player'.y )
                    => /\ ~obs'.spawned
                       /\ pc' # "fault"
       ]_vars

\* C19, witness: in the last tick the player clicked left, free to shoot,
\* with the pointer on its own position, and an enemy made its update from
\* that very position without moving.
C19_Witness ==
    /\ pc = "run"
    /\ input.fire
    /\ obs.could_shoot
    /\ input.mouse = <<player.x, player.y>>
    /\ ~obs.spawned
    /\ \E j \in 1 .. Len(obs.enemies_resolved) :
        /\ OnPlayer(obs.enemies_resolved[j], player)
        /\ OnPlayer(obs.enemies_updated[j], player)
        /\ obs.enemies_updated[j].age = obs.enemies_resolved[j].age + 1

\* the cells around (x, y), at most 8, that are walls in the grid g
WallsAround(g, x, y) ==
    {c \in Cols \X Rows :
        /\ c # <<x, y>>
        /\ Abs(c[1] - x) <= 1 /\ Abs(c[2] - y) <= 1
        /\ g[c[2]][c[1]] = WALL_TILE}

\* C20: after each smoothing pass of generate_map every interior cell is a
\* wall iff at least SMOOTHING_THRESHOLD of its 8 neighbours were walls in
\* the grid as it was before the pass began, whatever the grid.
C20_SmoothingSnapshot ==
    (pc = "bordered" /\ gen.passes >= 1) =>
        \A y \in Rows, x \in Cols :
            ~IsBorder(x, y) =>
                (map[y][x] = WALL_TILE <=>
                    Cardinality(WallsAround(gen.before, x, y))
                        >= SMOOTHING_THRESHOLD)

\* C20, witness: a pass has left a wall on an interior cell that had
\* exactly SMOOTHING_THRESHOLD walls around it before the pass, one of them
\* the interior cell on its left, which the same pass turned into floor.
C20_Witness ==
    /\ pc = "bordered"
    /\ gen.passes >= 1
    /\ \E y \in Rows, x \in Cols :
        /\ ~IsBorder(x, y) /\ ~IsBorder(x - 1, y)
        /\ Cardinality(WallsAround(gen.before, x, y)) = SMOOTHING_THRESHOLD
        /\ map[y][x] = WALL_TILE
        /\ gen.before[y][x - 1] = WALL_TILE
        /\ map[y][x - 1] = FLOOR_TILE

\* the states in which clear_safe_zone has returned
Carved == pc \in {"carved", "placed", "run", "quit", "fault"}

\* every tile of the grid g is a wall
AllWall(g) == \A y \in Rows, x \in Cols : g[y][x] = WALL_TILE

\* C21: clear_safe_zone changes no tile outside the clipped inclusive
\* (2R+1)-square around the tile of its centre, so that after a seeding
\* with probability 1.0 and no smoothing pass every tile outside the square
\* is still a wall; and no tick of Game.update changes a tile of the grid:
\* the tiles outside the square are, during the whole run, what
\* generate_map returned.
C21_GridImmutable ==
    /\ [](Carved =>
            \A y \in Rows, x \in Cols :
                ~InSquare(x, y, gen.cx, gen.cy, gen.r) =>
                    /\ map[y][x] = gen.before[y][x]
                    /\ (gen.k = 0 /\ AllWall(gen.before)) =>
                            map[y][x] = WALL_TILE)
    /\ [][tick' # tick => map' = map]_vars

\* C21, witness: the grid was all walls when clear_safe_zone carved the
\* spawn square out of it; ticks later a bullet of the player, fired
\* downwards, is held in the last row of the square by the wall under it,
\* that wall is still a wall, and so is the interior tile on the left of
\* the square.
C21_Witness ==
    /\ pc = "run"
    /\ tick >= 2
    /\ gen.k = 0
    /\ AllWall(gen.before)
    /\ \E i \in 1 .. Len(bullets) :
        LET b == bullets[i]
        IN  /\ b.owner = "player"
            /\ b.vy > 0
            /\ b.y \div TILE = StartTileY + SAFE_ZONE_RADIUS
            /\ ~is_walkable(map, b.x, b.y + b.vy)
            /\ map[(b.y + b.vy) \div TILE][b.x \div TILE] = WALL_TILE
    /\ map[StartTileY][StartTileX - SAFE_ZONE_RADIUS - 1] = WALL_TILE
    /\ map[StartTileY][StartTileX] = FLOOR_TILE

=============================================================================
